---------------------------- MODULE Spec2Model ----------------------------
(***************************************************************************)
(* A model of lag/__init__.py: the timer context managers (TimedContext,   *)
(* CumulativeTimings, TimerAndFeedback, TimerAndCallback) and the batch    *)
(* drivers time_multiple_calls / time_arg_combinations.                    *)
(*                                                                         *)
(* Time is an integer clock (time.perf_counter) counted in tenths of a     *)
(* second.  A Python value that may be a scalar or a tuple is a record     *)
(* [shape, elems]; Python's None is the string "None".                     *)
(*                                                                         *)
(* Spec      : one timer object, constructed once and then used by a       *)
(*             sequence of with statements (and, between them,             *)
(*             append_data calls and assignments to extra_callback_data).  *)
(* BatchSpec : one call of time_multiple_calls or time_arg_combinations.   *)
(***************************************************************************)
EXTENDS Integers, Sequences, FiniteSets, TLC

VARIABLES
    clock,        \* the reading time.perf_counter() would return now
    timer,        \* the timer object (self / cumul_timing)
    pc,           \* where the calling code is
    op,           \* the last operation the caller performed on the timer
    op_arg,       \* the argument of that operation ("None" when it has none)
    raised,       \* the exception that operation let through to the caller
    block_exc,    \* the exception the timed block of the current use raised
    entry_clock,  \* the clock reading when the current use was entered
    uses,         \* number of completed with statements
    printed,      \* the messages print_func was called with
    cb_calls,     \* the arguments callback was called with
    arguments,    \* time_multiple_calls: the argument tuples
    args_base,    \* time_arg_combinations: the iterables
    entry,        \* which batch function the caller called
    flags,        \* <<return_func_args, include_func_output>>
    output_kind,  \* time_multiple_calls: the local output_kind
    idx,          \* number of argument tuples the for loop has consumed
    fail_at,      \* the call of func that raises (0: func never raises)
    func_calls,   \* the argument tuples func was called with, in order
    func_output,  \* time_multiple_calls: the local func_output
    caller_refs   \* the objects the batch call handed to its caller

timer_vars == <<clock, timer, pc, op, op_arg, raised, block_exc, entry_clock, uses,
                printed, cb_calls>>
batch_vars == <<arguments, args_base, entry, flags, output_kind, idx, fail_at,
                func_calls, func_output, caller_refs>>
timer_vars_but_pc == <<clock, timer, op, op_arg, raised, block_exc, entry_clock,
                       uses, printed, cb_calls>>
vars == <<timer_vars, batch_vars>>

----------------------------------------------------------------------------
(* Bounds of the model *)

MaxClock == 3
MaxUses == 3
MaxTuples == 3
MaxIterables == 2
MaxPool == 2

BlockTimes == 0..1
DataValues == {"index: 0", "index: 1"}
ExtraValues == {"v1", "v2"}
StartMsgs == {<<>>, <<"doing something...">>}
EndMsgs == {<<>>, <<"... finished doing that thing">>}

----------------------------------------------------------------------------
(* Python values *)

PyScalar(x) == [shape |-> "scalar", elems |-> <<x>>]
PyTuple(s) == [shape |-> "tuple", elems |-> s]

Last(s) == s[Len(s)]

(* A candidate for the datas argument of CumulativeTimings: None, or an     *)
(* object with the named attributes and the items it holds.                 *)
PyNoneArg == [py_none |-> TRUE, attrs |-> {}, items |-> <<>>]
ListArg == [py_none |-> FALSE, attrs |-> {"append", "__len__"}, items |-> <<>>]
LenAttrArg == [py_none |-> FALSE, attrs |-> {"append", "len", "__len__"}, items |-> <<>>]
NoAppendArg == [py_none |-> FALSE, attrs |-> {"__len__"}, items |-> <<>>]
DatasArgs == {PyNoneArg, ListArg, LenAttrArg, NoAppendArg}

----------------------------------------------------------------------------
(* The timer classes *)

NewObject(kind) ==
    [kind |-> kind, has |-> {}, start |-> 0, end |-> 0, elapsed |-> 0,
     list |-> <<>>, datas |-> ListArg,
     start_msg |-> <<>>, end_msg |-> <<>>, verbose |-> FALSE,
     extra_callback_data |-> "None"]

TimedContext_enter(t, now) ==
    [t EXCEPT !.start = now, !.has = @ \cup {"start"}]

TimedContext_exit_no_subtract(t, now) ==
    [t EXCEPT !.end = now, !.elapsed = now, !.has = @ \cup {"end", "elapsed"}]

TimedContext_exit(t, now) ==
    [t EXCEPT !.end = now, !.elapsed = now - t.start,
              !.has = @ \cup {"end", "elapsed"}]

(* No __exit__ of the module returns a value: the with statement gets None. *)
exit_return_true == TRUE

exit_return_value == FALSE

CumulativeTimings_init_ok(datas) ==
    datas.py_none \/ ("append" \in datas.attrs /\ "len" \in datas.attrs)

CumulativeTimings_init(datas) ==
    [NewObject("CumulativeTimings") EXCEPT
        !.datas = IF datas.py_none THEN ListArg ELSE datas]

append_data_ok_off_by_one(t) == Len(t.datas.items) = Len(t.list)

append_data_ok(t) == Len(t.datas.items) + 1 = Len(t.list)

append_data_unguarded(t, data) ==
    [ok |-> TRUE, self |-> [t EXCEPT !.datas.items = Append(@, data)]]

append_data(t, data) ==
    IF append_data_ok(t)
    THEN [ok |-> TRUE, self |-> [t EXCEPT !.datas.items = Append(@, data)]]
    ELSE [ok |-> FALSE, self |-> t]

CumulativeTimings_exit_appends_end(t, now) ==
    LET u == TimedContext_exit(t, now)
    IN  [u EXCEPT !.list = Append(@, u.end)]

CumulativeTimings_exit(t, now) ==
    LET u == TimedContext_exit(t, now)
    IN  [u EXCEPT !.list = Append(@, u.elapsed)]

TimerAndFeedback_init(start_msg, end_msg, verbose) ==
    [NewObject("TimerAndFeedback") EXCEPT
        !.start_msg = start_msg,
        !.end_msg = IF Len(end_msg) > 0 THEN Append(end_msg, "\n") ELSE end_msg,
        !.verbose = verbose]

(* Whether print_if_verbose(msg) calls print_func. *)
print_if_verbose(t, msg) == t.verbose /\ Len(msg) > 0

(* The clock counts tenths of a second, so the 0.1f format is exact. *)
TookMsg(t) == t.end_msg \o <<"Took", t.elapsed, "seconds">>

TimerAndCallback_init ==
    [NewObject("TimerAndCallback") EXCEPT !.extra_callback_data = "None"]

callback_arg_elapsed_only(t) == PyScalar(t.elapsed)

callback_arg(t) ==
    IF t.extra_callback_data # "None"
    THEN PyTuple(<<t.elapsed, t.extra_callback_data>>)
    ELSE PyScalar(t.elapsed)

(* __enter__ and __exit__ as the class of the object resolves them. *)
Enter(t, now) == TimedContext_enter(t, now)

Exit(t, now) ==
    IF t.kind = "CumulativeTimings"
    THEN CumulativeTimings_exit(t, now)
    ELSE TimedContext_exit(t, now)

----------------------------------------------------------------------------
(* Spec: one timer object and its caller *)

BatchIdle ==
    /\ arguments = <<>>
    /\ args_base = <<>>
    /\ entry = "none"
    /\ flags = <<TRUE, TRUE>>
    /\ output_kind = "none"
    /\ idx = 0
    /\ fail_at = 0
    /\ func_calls = <<>>
    /\ func_output = 0
    /\ caller_refs = {}

Init ==
    /\ clock = 0
    /\ timer = NewObject("none")
    /\ pc = "new"
    /\ op = "none"
    /\ op_arg = "None"
    /\ raised = "none"
    /\ block_exc = "none"
    /\ entry_clock = 0
    /\ uses = 0
    /\ printed = <<>>
    /\ cb_calls = <<>>
    /\ BatchIdle

Constructed(t) ==
    /\ pc' = "idle"
    /\ raised' = "none"
    /\ timer' = t
    /\ UNCHANGED <<clock, block_exc, entry_clock, uses, printed, cb_calls, batch_vars>>

NewTimedContext ==
    /\ pc = "new"
    /\ op' = "init"
    /\ op_arg' = "None"
    /\ Constructed(NewObject("TimedContext"))

NewCumulativeTimings(datas) ==
    /\ pc = "new"
    /\ op' = "init_cumulative"
    /\ op_arg' = datas
    /\ IF CumulativeTimings_init_ok(datas)
       THEN Constructed(CumulativeTimings_init(datas))
       ELSE /\ pc' = "init_failed"
            /\ raised' = "AssertionError"
            /\ UNCHANGED timer
            /\ UNCHANGED <<clock, block_exc, entry_clock, uses, printed, cb_calls,
                           batch_vars>>

NewTimerAndFeedback(start_msg, end_msg, verbose) ==
    /\ pc = "new"
    /\ op' = "init"
    /\ op_arg' = "None"
    /\ Constructed(TimerAndFeedback_init(start_msg, end_msg, verbose))

NewTimerAndCallback ==
    /\ pc = "new"
    /\ op' = "init"
    /\ op_arg' = "None"
    /\ Constructed(TimerAndCallback_init)

(* Time passes in the caller between two operations on the timer. *)
CallerWork ==
    /\ pc = "idle"
    /\ clock < MaxClock
    /\ clock' = clock + 1
    /\ op' = "work"
    /\ op_arg' = "None"
    /\ raised' = "none"
    /\ UNCHANGED <<timer, pc, block_exc, entry_clock, uses, printed, cb_calls,
                   batch_vars>>

(* with timer: ... reaches timer.__enter__().  TimerAndFeedback first      *)
(* passes start_msg to print_func, which may raise.                        *)
WithEnter(sink_fails) ==
    /\ pc = "idle"
    /\ uses < MaxUses
    /\ LET sink_called == timer.kind = "TimerAndFeedback"
                          /\ print_if_verbose(timer, timer.start_msg)
       IN  /\ sink_fails => sink_called
           /\ sink_called => Len(printed) < 2 * MaxUses
           /\ printed' = IF sink_called THEN Append(printed, timer.start_msg)
                         ELSE printed
           /\ IF sink_fails
              THEN /\ raised' = "SinkError"
                   /\ UNCHANGED <<timer, pc, entry_clock>>
              ELSE /\ raised' = "none"
                   /\ timer' = Enter(timer, clock)
                   /\ entry_clock' = clock
                   /\ pc' = "block"
    /\ op' = "enter"
    /\ op_arg' = "None"
    /\ block_exc' = "none"
    /\ UNCHANGED <<clock, uses, cb_calls, batch_vars>>

(* The caller may assign extra_callback_data before or during the scope. *)
SetExtra(v) ==
    /\ pc \in {"idle", "block"}
    /\ timer.kind = "TimerAndCallback"
    /\ timer.extra_callback_data # v
    /\ timer' = [timer EXCEPT !.extra_callback_data = v]
    /\ op' = "set_extra"
    /\ op_arg' = "None"
    /\ raised' = "none"
    /\ UNCHANGED <<clock, pc, block_exc, entry_clock, uses, printed, cb_calls,
                   batch_vars>>

(* The timed block runs for d ticks and ends normally or by raising. *)
WithBlock(d, fails) ==
    /\ pc = "block"
    /\ clock + d <= MaxClock
    /\ clock' = clock + d
    /\ block_exc' = IF fails THEN "BlockError" ELSE "none"
    /\ pc' = "exit"
    /\ op' = "block"
    /\ op_arg' = "None"
    /\ raised' = "none"
    /\ UNCHANGED <<timer, entry_clock, uses, printed, cb_calls, batch_vars>>

(* The with statement calls timer.__exit__(...).  An exception raised by   *)
(* __exit__ itself (by print_func or callback) is what the caller gets;    *)
(* otherwise the block's exception is re-raised unless __exit__ returned a *)
(* true value.                                                             *)
WithExit(sink_fails) ==
    /\ pc = "exit"
    /\ LET t == Exit(timer, clock)
           prints == t.kind = "TimerAndFeedback" /\ print_if_verbose(t, TookMsg(t))
           calls == t.kind = "TimerAndCallback"
       IN  /\ sink_fails => (prints \/ calls)
           /\ timer' = t
           /\ printed' = IF prints THEN Append(printed, TookMsg(t)) ELSE printed
           /\ cb_calls' = IF calls THEN Append(cb_calls, callback_arg(t)) ELSE cb_calls
           /\ raised' = IF sink_fails THEN "SinkError"
                        ELSE IF block_exc # "none" /\ ~exit_return_value THEN block_exc
                        ELSE "none"
    /\ pc' = "idle"
    /\ op' = "exit"
    /\ op_arg' = "None"
    /\ uses' = uses + 1
    /\ UNCHANGED <<clock, block_exc, entry_clock, batch_vars>>

AppendData(data) ==
    /\ pc = "idle"
    /\ timer.kind = "CumulativeTimings"
    /\ LET r == append_data(timer, data)
       IN  /\ timer' = r.self
           /\ raised' = IF r.ok THEN "none" ELSE "AssertionError"
    /\ op' = "append_data"
    /\ op_arg' = data
    /\ UNCHANGED <<clock, pc, block_exc, entry_clock, uses, printed, cb_calls,
                   batch_vars>>

Next ==
    \/ NewTimedContext
    \/ \E datas \in DatasArgs : NewCumulativeTimings(datas)
    \/ \E s \in StartMsgs, e \in EndMsgs, v \in BOOLEAN : NewTimerAndFeedback(s, e, v)
    \/ NewTimerAndCallback
    \/ CallerWork
    \/ \E f \in BOOLEAN : WithEnter(f)
    \/ \E v \in ExtraValues : SetExtra(v)
    \/ \E d \in BlockTimes, f \in BOOLEAN : WithBlock(d, f)
    \/ \E f \in BOOLEAN : WithExit(f)
    \/ \E data \in DataValues : AppendData(data)

Spec == Init /\ [][Next]_vars

----------------------------------------------------------------------------
(* BatchSpec: one call of time_multiple_calls or time_arg_combinations *)

RECURSIVE Prod(_)
Prod(s) == IF Len(s) = 0 THEN 1 ELSE s[1] * Prod(Tail(s))

(* The timed function of the doctests: it sleeps for the product of its    *)
(* arguments and returns that product.                                     *)
func(func_args) == Prod(func_args)

(* One round of product's loop: [x+[y] for x in result for y in pool]. *)
product_round_first_fastest(result, pool) ==
    [k \in 1..(Len(result) * Len(pool)) |->
        Append(result[((k - 1) % Len(result)) + 1],
               pool[((k - 1) \div Len(result)) + 1])]

product_round(result, pool) ==
    [k \in 1..(Len(result) * Len(pool)) |->
        Append(result[((k - 1) \div Len(pool)) + 1],
               pool[((k - 1) % Len(pool)) + 1])]

RECURSIVE product_from(_, _, _)
product_from(result, pools, j) ==
    IF j > Len(pools) THEN result
    ELSE product_from(product_round(result, pools[j]), pools, j + 1)

product(pools) == product_from(<< <<>> >>, pools, 1)

OutputKind(return_func_args, include_func_output) ==
    IF return_func_args \/ include_func_output
    THEN IF return_func_args
         THEN IF include_func_output THEN "func_args_and_output"
              ELSE "func_output"
         ELSE "func_args"
    ELSE "only_timings"

annotation_without_output(kind, func_args, output) ==
    IF kind = "func_output" THEN PyScalar(output) ELSE PyTuple(func_args)

annotation(kind, func_args, output) ==
    IF kind = "func_args_and_output" THEN PyTuple(Append(func_args, output))
    ELSE IF kind = "func_output" THEN PyScalar(output)
    ELSE IF kind = "func_args" THEN PyTuple(func_args)
    ELSE PyScalar("None")

Tuples == {<<1, 2>>, <<2, 3>>}
ArgLists == UNION {[1..n -> Tuples] : n \in 0..MaxTuples}

(* The i-th value of the j-th iterable is 10 j + i. *)
BaseOfSizes(sizes) ==
    [j \in DOMAIN sizes |-> [i \in 1..sizes[j] |-> 10 * j + i]]
ArgBases ==
    {BaseOfSizes(sizes) : sizes \in UNION {[1..m -> 0..MaxPool] : m \in 0..MaxIterables}}

BatchInit ==
    /\ clock = 0
    /\ timer = NewObject("none")
    /\ pc = "start"
    /\ op = "none"
    /\ op_arg = "None"
    /\ raised = "none"
    /\ block_exc = "none"
    /\ entry_clock = 0
    /\ uses = 0
    /\ printed = <<>>
    /\ cb_calls = <<>>
    /\ BatchIdle

(* The body of time_multiple_calls up to the for loop. *)
time_multiple_calls_begin(args, return_func_args, include_func_output, k) ==
    /\ arguments' = args
    /\ flags' = <<return_func_args, include_func_output>>
    /\ output_kind' = OutputKind(return_func_args, include_func_output)
    /\ timer' = CumulativeTimings_init(PyNoneArg)
    /\ fail_at' = k
    /\ pc' = "loop"
    /\ UNCHANGED <<clock, op, op_arg, raised, block_exc, entry_clock, uses, printed,
                   cb_calls, idx, func_calls, func_output, caller_refs>>

CallTimeMultipleCalls(args, return_func_args, include_func_output, k) ==
    /\ pc = "start"
    /\ entry' = "time_multiple_calls"
    /\ UNCHANGED args_base
    /\ time_multiple_calls_begin(args, return_func_args, include_func_output, k)

CallTimeArgCombinations(base, return_func_args, include_func_output, k) ==
    /\ pc = "start"
    /\ entry' = "time_arg_combinations"
    /\ args_base' = base
    /\ time_multiple_calls_begin(product(base), return_func_args,
                                 include_func_output, k)

(* for func_args in arguments: with cumul_timing: func_output = func(...) *)
LoopWith ==
    /\ pc = "loop"
    /\ idx < Len(arguments)
    /\ LET func_args == arguments[idx + 1]
           fails == fail_at = Len(func_calls) + 1
           now == clock + func(func_args)
           propagates == fails /\ ~exit_return_value
       IN  /\ timer' = Exit(Enter(timer, clock), now)
           /\ entry_clock' = clock
           /\ clock' = now
           /\ func_calls' = Append(func_calls, func_args)
           /\ block_exc' = IF fails THEN "FuncError" ELSE "none"
           /\ raised' = IF propagates THEN "FuncError" ELSE "none"
           /\ pc' = IF propagates THEN "raised" ELSE "record"
           /\ func_output' = IF fails THEN func_output ELSE func(func_args)
    /\ idx' = idx + 1
    /\ uses' = uses + 1
    /\ UNCHANGED <<op, op_arg, printed, cb_calls, arguments, args_base, entry, flags,
                   output_kind, fail_at, caller_refs>>

(* The rest of the loop body: the annotation, if any, is recorded. *)
LoopRecord ==
    /\ pc = "record"
    /\ IF output_kind # "only_timings"
       THEN LET r == append_data(timer, annotation(output_kind, arguments[idx],
                                                   func_output))
            IN  /\ timer' = r.self
                /\ raised' = IF r.ok THEN "none" ELSE "AssertionError"
                /\ pc' = IF r.ok THEN "loop" ELSE "raised"
       ELSE /\ pc' = "loop"
            /\ UNCHANGED <<timer, raised>>
    /\ UNCHANGED <<clock, op, op_arg, block_exc, entry_clock, uses, printed, cb_calls,
                   batch_vars>>

Return ==
    /\ pc = "loop"
    /\ idx = Len(arguments)
    /\ pc' = "returned"
    /\ caller_refs' = IF output_kind # "only_timings"
                      THEN {"cumul_timing", "datas"}
                      ELSE {"cumul_timing"}
    /\ UNCHANGED <<timer_vars_but_pc, arguments, args_base, entry, flags, output_kind,
                   idx, fail_at, func_calls, func_output>>

BatchNext ==
    \/ \E args \in ArgLists, a \in BOOLEAN, o \in BOOLEAN :
           \E k \in 0..Len(args) : CallTimeMultipleCalls(args, a, o, k)
    \/ \E base \in ArgBases, a \in BOOLEAN, o \in BOOLEAN :
           \E k \in 0..Len(product(base)) : CallTimeArgCombinations(base, a, o, k)
    \/ LoopWith
    \/ LoopRecord
    \/ Return

BatchSpec == BatchInit /\ [][BatchNext]_vars

----------------------------------------------------------------------------
(* Properties of one timer object (checked under Spec) *)

IsCumulative == timer.kind = "CumulativeTimings"

(* C1, as the specification states it: on a CumulativeTimings the data     *)
(* store always has as many items as there are durations, or one fewer.    *)
C1_LengthsWithinOne ==
    IsCumulative =>
        Len(timer.datas.items) \in {Len(timer.list) - 1, Len(timer.list)}

(* C1, amended: on a CumulativeTimings whose data store was empty when it  *)
(* was constructed, the data store never has more items than there are     *)
(* durations, and right after a successful append_data the two lengths are *)
(* equal.  (Scope uses that are not followed by append_data widen the gap  *)
(* without limit.)                                                         *)
C1_DataNeverAhead ==
    IsCumulative =>
        /\ Len(timer.datas.items) <= Len(timer.list)
        /\ (op = "append_data" /\ raised = "none")
               => Len(timer.datas.items) = Len(timer.list)

C1_GapOfTwo ==
    /\ IsCumulative
    /\ Len(timer.list) >= Len(timer.datas.items) + 2
    /\ Len(timer.datas.items) >= 1

(* C2: append_data(value) succeeds exactly when the data store holds one   *)
(* item fewer than the durations; a successful call appends value as the   *)
(* last item and leaves the lengths equal; a failing call raises the       *)
(* AssertionError and leaves data store and durations unchanged.           *)
C2_AppendData ==
    [][op' = "append_data" =>
        LET one_less == Len(timer.datas.items) + 1 = Len(timer.list)
        IN  /\ (raised' = "none") <=> one_less
            /\ (raised' # "none") => raised' = "AssertionError" /\ timer' = timer
            /\ (raised' = "none") =>
                  /\ timer'.datas.items = Append(timer.datas.items, op_arg')
                  /\ timer'.list = timer.list
                  /\ Len(timer'.datas.items) = Len(timer'.list)]_vars

C2_SecondCallFails ==
    /\ op = "append_data"
    /\ raised = "AssertionError"
    /\ Len(timer.list) >= 1
    /\ Len(timer.datas.items) = Len(timer.list)

(* C3: after N completed scope uses of a CumulativeTimings the durations   *)
(* have exactly N items; every scope exit, normal or by an exception,      *)
(* appends exactly one item, which is the clock at exit minus the clock at *)
(* this use's entry; no other step touches the durations; elapsed is the   *)
(* last item.                                                              *)
C3_OneDurationPerUse ==
    /\ [](IsCumulative =>
            /\ Len(timer.list) = uses
            /\ uses > 0 => /\ "elapsed" \in timer.has
                           /\ timer.elapsed = Last(timer.list))
    /\ [][timer'.kind = "CumulativeTimings" =>
            IF uses' # uses
            THEN /\ timer'.list = Append(timer.list, clock' - entry_clock)
                 /\ uses' = uses + 1
            ELSE timer'.list = timer.list]_vars

C3_ExitByException ==
    /\ IsCumulative
    /\ op = "exit"
    /\ raised = "BlockError"
    /\ uses >= 2
    /\ timer.start > 0
    /\ timer.list[1] # timer.list[2]

ElapsedSetForThisUse ==
    /\ {"start", "end", "elapsed"} \subseteq timer.has
    /\ timer.start = entry_clock
    /\ timer.end = clock
    /\ timer.elapsed = timer.end - timer.start

(* C7, as the specification states it: for every timer kind a failure      *)
(* raised inside the timed block reaches the caller unchanged, with end    *)
(* and elapsed set for this use, elapsed = end - start.                    *)
C7_BlockFailurePropagates ==
    (op = "exit" /\ block_exc = "BlockError") =>
        /\ raised = "BlockError"
        /\ ElapsedSetForThisUse

(* C7, amended: a failure raised inside the timed block is never           *)
(* suppressed, and reaches the caller unchanged unless print_func (of a    *)
(* verbose TimerAndFeedback) or callback (of a TimerAndCallback) itself    *)
(* raises during __exit__, in which case that exception reaches the caller *)
(* instead; in every case end and elapsed are set for this use, with       *)
(* elapsed = end - start.                                                  *)
C7_BlockFailureNotSuppressed ==
    (op = "exit" /\ block_exc = "BlockError") =>
        /\ raised \in {"BlockError", "SinkError"}
        /\ raised = "SinkError" =>
              \/ timer.kind = "TimerAndFeedback" /\ timer.verbose /\ Len(printed) > 0
              \/ timer.kind = "TimerAndCallback" /\ Len(cb_calls) > 0
        /\ ElapsedSetForThisUse

C7_FailureReachedCaller ==
    /\ op = "exit"
    /\ block_exc = "BlockError"
    /\ raised = "BlockError"
    /\ timer.kind = "TimerAndCallback"
    /\ timer.elapsed > 0
    /\ timer.start > 0

(* C9: every scope exit of a TimerAndCallback calls callback exactly once, *)
(* with this use's elapsed alone when extra_callback_data was never set,   *)
(* and with the pair (elapsed, V) when it was set to V.                    *)
C9_CallbackArgument ==
    timer.kind = "TimerAndCallback" =>
        /\ Len(cb_calls) = uses
        /\ op = "exit" =>
              Last(cb_calls) =
                  IF timer.extra_callback_data = "None"
                  THEN [shape |-> "scalar", elems |-> <<clock - entry_clock>>]
                  ELSE [shape |-> "tuple",
                        elems |-> <<clock - entry_clock, timer.extra_callback_data>>]

C9_PairAfterScalar ==
    /\ timer.kind = "TimerAndCallback"
    /\ op = "exit"
    /\ uses >= 2
    /\ cb_calls[1].shape = "scalar"
    /\ Last(cb_calls).shape = "tuple"
    /\ Last(cb_calls).elems[1] > 0

(* C10: constructing CumulativeTimings with a supplied store that has      *)
(* append and __len__ succeeds and makes that object the data store; only  *)
(* a store lacking one of them is rejected.                                *)
C10_SizedStoreAccepted ==
    (op = "init_cumulative" /\ ~op_arg.py_none) =>
        IF {"append", "__len__"} \subseteq op_arg.attrs
        THEN raised = "none" /\ pc = "idle" /\ timer.datas = op_arg
        ELSE raised = "AssertionError" /\ pc = "init_failed"

----------------------------------------------------------------------------
(* Properties of the batch drivers (checked under BatchSpec) *)

Started == pc \in {"loop", "record", "returned", "raised"}
Items == timer.datas.items
FuncRaised == fail_at > 0 /\ Len(func_calls) >= fail_at

(* C4: each annotation contains the call's argument tuple exactly when     *)
(* return_func_args is true and func's return value exactly when           *)
(* include_func_output is true; with both false nothing is recorded and    *)
(* only the timer is returned.                                             *)
C4_FlagsSelectAnnotation ==
    Started =>
        /\ \A i \in 1..Len(Items) :
              /\ flags[1] /\ flags[2] =>
                    Items[i] = [shape |-> "tuple",
                                elems |-> arguments[i] \o <<func(arguments[i])>>]
              /\ flags[1] /\ ~flags[2] =>
                    Items[i] = [shape |-> "tuple", elems |-> arguments[i]]
              /\ ~flags[1] /\ flags[2] =>
                    Items[i] = [shape |-> "scalar", elems |-> <<func(arguments[i])>>]
        /\ ~flags[1] /\ ~flags[2] =>
              /\ Items = <<>>
              /\ pc = "returned" => caller_refs = {"cumul_timing"}

(* C5: with both flags true and a func that never raises, func is called   *)
(* once per argument tuple, in order, and the call returns a timer with K  *)
(* durations and a data store whose i-th item is the i-th argument tuple   *)
(* followed by func's return value for it.                                 *)
C5_ArgsAndOutput ==
    (Started /\ flags = <<TRUE, TRUE>> /\ fail_at = 0) =>
        /\ func_calls = SubSeq(arguments, 1, Len(func_calls))
        /\ Len(timer.list) = Len(func_calls)
        /\ \A i \in 1..Len(Items) :
              Items[i] = [shape |-> "tuple",
                          elems |-> arguments[i] \o <<func(arguments[i])>>]
        /\ pc = "record" => Len(Items) = Len(func_calls) - 1
        /\ pc = "loop" => Len(Items) = Len(func_calls)
        /\ pc # "raised"
        /\ pc = "returned" =>
              /\ func_calls = arguments
              /\ Len(Items) = Len(arguments)
              /\ caller_refs = {"cumul_timing", "datas"}

C5_ThreeCallsReturned ==
    /\ entry = "time_multiple_calls"
    /\ flags = <<TRUE, TRUE>>
    /\ pc = "returned"
    /\ Len(arguments) = 3
    /\ arguments[1] # arguments[2]
    /\ Len(Items) = 3

(* The number of tuples of the cartesian product, and its k-th tuple in    *)
(* lexicographic order: k - 1 written in the mixed radix of the iterables' *)
(* lengths, the last iterable being the least significant digit.           *)
RECURSIVE SizeFrom(_, _)
SizeFrom(base, j) ==
    IF j > Len(base) THEN 1 ELSE Len(base[j]) * SizeFrom(base, j + 1)

LexTuple(base, k) ==
    [j \in 1..Len(base) |->
        base[j][(((k - 1) \div SizeFrom(base, j + 1)) % Len(base[j])) + 1]]

(* C6: time_arg_combinations calls func once for every tuple of the        *)
(* cartesian product and for nothing else, in lexicographic order (first   *)
(* iterable slowest, last fastest); for ([a1,a2],[b1,b2]) that is the four *)
(* calls (a1,b1), (a1,b2), (a2,b1), (a2,b2).                               *)
C6_ProductOrder ==
    entry = "time_arg_combinations" =>
        /\ Len(func_calls) <= SizeFrom(args_base, 1)
        /\ \A k \in 1..Len(func_calls) : func_calls[k] = LexTuple(args_base, k)
        /\ pc = "returned" => Len(func_calls) = SizeFrom(args_base, 1)
        /\ (pc = "returned" /\ args_base = << <<11, 12>>, <<21, 22>> >>) =>
              func_calls = << <<11, 21>>, <<11, 22>>, <<12, 21>>, <<12, 22>> >>

C6_TwoByTwoReturned ==
    /\ entry = "time_arg_combinations"
    /\ pc = "returned"
    /\ args_base = << <<11, 12>>, <<21, 22>> >>
    /\ Len(func_calls) = 4

(* What the timer holds when func has raised on the k-th tuple: func was   *)
(* called for the first k tuples only, there are k durations (the failing  *)
(* call's included) and the annotations of the k - 1 earlier calls.        *)
AbortedAtFailingCall ==
    /\ pc = "raised"
    /\ raised = "FuncError"
    /\ func_calls = SubSeq(arguments, 1, fail_at)
    /\ Len(timer.list) = fail_at
    /\ Len(Items) = IF output_kind = "only_timings" THEN 0 ELSE fail_at - 1
    /\ \A i \in 1..Len(Items) :
          Items[i] = annotation(output_kind, arguments[i], func(arguments[i]))

(* C8, as the specification states it: when func raises on the k-th tuple  *)
(* the batch aborts, the failure propagates, and the timings and           *)
(* annotations collected so far are accessible to the caller on the timer  *)
(* object.                                                                 *)
C8_PartialResultsAccessible ==
    FuncRaised =>
        /\ AbortedAtFailingCall
        /\ "cumul_timing" \in caller_refs

(* C8, amended: when func raises on the k-th tuple the batch aborts (func  *)
(* is called for no later tuple), the failure propagates to the caller,    *)
(* and at that moment the timer holds the k durations and the k - 1        *)
(* earlier annotations unchanged; but the timer is a local of              *)
(* time_multiple_calls that is only handed out by its return statements,   *)
(* so the caller receives no reference to it.                              *)
C8_AbortKeepsTimerLocal ==
    /\ [](FuncRaised => (AbortedAtFailingCall /\ caller_refs = {}))
    /\ [][Started =>
            /\ SubSeq(timer'.list, 1, Len(timer.list)) = timer.list
            /\ SubSeq(timer'.datas.items, 1, Len(Items)) = Items]_vars

C8_AbortedWithEarlierResults ==
    /\ pc = "raised"
    /\ fail_at >= 2
    /\ Len(Items) >= 1
    /\ idx < Len(arguments)

=============================================================================
